---- MODULE Spec2Model ----
(***************************************************************************)
(* buckle: the resolution / cache / extraction pipeline of src/main.rs.    *)
(*                                                                         *)
(* A string is a sequence of letters (each letter an atom, possibly a      *)
(* multi-character chunk); a path is a sequence of components below the    *)
(* archive directory <cache_root>/<archive_name>, each component a string. *)
(***************************************************************************)
EXTENDS Integers, Sequences, FiniteSets, TLC

VARIABLES
    config,     \* the archive and binary configuration of this installation
    now,        \* wall clock, seconds (SystemTime::now)
    provider,   \* body the release-listing endpoint currently serves
    snapshot,   \* <archive_dir>/releases.json: [exists, text, mtime]
    dirs,       \* directories that exist below the archive directory
    files,      \* path -> [data, len, mode, flushed], files below the archive directory
    run,        \* the invocation in progress: position, locals, requests issued
    prev,       \* summary of the previous invocation
    runs,       \* number of invocations started
    ticked,     \* the clock was changed since the last invocation
    call,       \* a pure function applied to inputs: [op, ...inputs, out]
    launcher,   \* one execution of main: position, inputs, error stream, exit status
    writers     \* two invocations that populate one release directory at the same time

vars == <<config, now, provider, snapshot, dirs, files, run, prev, runs, ticked,
          call, launcher, writers>>

\* Option<T> is a set with at most one element
NoneOpt == {}
Some(x) == {x}

\* ---------------------------------------------------------------- bounds
MaxRuns == 2
\* chunks in one asset payload
PayloadLen == 2

\* ---------------------------------------------------------------- constants
\* freshness window of releases.json, seconds
FreshWindow == 60 * 60

\* ---------------------------------------------------------------- strings
\* str::replace(token, value): every occurrence of the letter token becomes value
RECURSIVE Replace(_, _, _)
Replace(s, token, value) ==
    IF s = <<>> THEN <<>>
    ELSE (IF Head(s) = token THEN value ELSE <<Head(s)>>) \o Replace(Tail(s), token, value)

IsPrefix(p, s) == Len(p) <= Len(s) /\ SubSeq(s, 1, Len(p)) = p

IsInfix(p, s) ==
    \E i \in 0..(Len(s) - Len(p)) : SubSeq(s, i + 1, i + Len(p)) = p

\* Regex::is_match for a pattern of literal letters with optional ^ and $ anchors:
\* an unanchored pattern matches anywhere in the text.
IsMatch(re, s) ==
    LET front == re /= <<>> /\ Head(re) = "^"
        r1    == IF front THEN Tail(re) ELSE re
        back  == r1 /= <<>> /\ r1[Len(r1)] = "$"
        lit   == IF back THEN SubSeq(r1, 1, Len(r1) - 1) ELSE r1
    IN  CASE front /\ back   -> s = lit
          [] front /\ ~back  -> IsPrefix(lit, s)
          [] ~front /\ back  -> Len(lit) <= Len(s) /\ SubSeq(s, Len(s) - Len(lit) + 1, Len(s)) = lit
          [] OTHER           -> IsInfix(lit, s)

\* ---------------------------------------------------------------- runtime facts
ARCH == <<"x86_64">>
get_triple_os == <<"linux">>
get_target == <<"x86_64", "-unknown-", "linux", "-gnu">>

\* ---------------------------------------------------------------- provider data
ExeName == <<"buck2-", "x86_64", "-unknown-", "linux", "-gnu", ".zst">>
OtherExeName == <<"buck2-", "aarch64", "-apple-", "darwin", ".zst">>

Asset(name, url) == [name |-> name, browser_download_url |-> url]

Release(name, tag, commit, assets) ==
    [name |-> Some(name), tag_name |-> tag, target_commitish |-> commit, assets |-> assets]

RelLatest ==
    Release(<<"latest">>, <<"latest">>, <<"c1">>,
            <<Asset(ExeName, "u1"), Asset(<<"prelude">>, "h1")>>)

RelDated ==
    Release(<<"2023-07-15">>, <<"2023-07-15">>, <<"c2">>,
            <<Asset(ExeName, "u2"), Asset(<<"prelude">>, "h2")>>)

\* a second release whose display name contains "latest"; its tag differs
RelOlder ==
    Release(<<"latest", "-old">>, <<"old">>, <<"c3">>,
            <<Asset(ExeName, "u3"), Asset(ExeName \o <<".sha256">>, "u4")>>)

\* a release whose display name contains "latest" and that ships nothing for this target
RelEmpty ==
    Release(<<"latest", "-src">>, <<"src">>, <<"c4">>,
            <<Asset(OtherExeName, "u5")>>)

RelUnnamed ==
    [name |-> NoneOpt, tag_name |-> <<"latest">>, target_commitish |-> <<"c5">>,
     assets |-> <<Asset(ExeName, "u6")>>]

\* the bodies the listing endpoint can serve, by response text
Listings ==
    [ one   |-> <<RelDated, RelLatest>>,
      two   |-> <<RelLatest, RelUnnamed, RelOlder, RelEmpty>>,
      bare  |-> <<RelEmpty, RelDated>> ]

\* a body that is no JSON array of releases (an error object of the provider)
Garbage == "rate_limited"

Texts == DOMAIN Listings \cup {Garbage}

\* serde_json::from_str::<Vec<Release>>
ParseOk(text) == text \in DOMAIN Listings
Parse(text) == Listings[text]

\* ---------------------------------------------------------------- configuration
\* BuckleConfig::buck2_latest: the built-in archive and binary "buck2"
CfgLatest ==
    [ gh |-> [owner |-> "facebook", repo |-> "buck2", version |-> <<"latest">>],
      artifact_pattern |-> <<"buck2-", "%target%", ".zst">>,
      package_type |-> "ZstdSingleFile",
      binary_name |-> <<"buck2">> ]

\* a configuration with an anchored version pattern and an anchored artifact pattern
CfgDated ==
    [ gh |-> [owner |-> "facebook", repo |-> "buck2", version |-> <<"^", "2023-07-15", "$">>],
      artifact_pattern |-> <<"^", "buck2-", "%arch%", "-unknown-", "%os%", "-gnu", ".zst", "$">>,
      package_type |-> "SingleFile",
      binary_name |-> <<"buck2">> ]

Configs == {CfgLatest, CfgDated}

\* ---------------------------------------------------------------- download_from_github
\* a string that starts with the path separator names an absolute path
IsAbsolute(s) == s /= <<>> /\ Head(s) = "/"

\* the components of a string, which the separator letter "/" divides
RECURSIVE Components(_, _)
Components(s, current) ==
    IF s = <<>> THEN (IF current = <<>> THEN <<>> ELSE <<current>>)
    ELSE IF Head(s) = "/"
         THEN (IF current = <<>> THEN <<>> ELSE <<current>>) \o Components(Tail(s), <<>>)
         ELSE Components(Tail(s), Append(current, Head(s)))

\* PathBuf::push: the components of the string are appended; an absolute string
\* replaces the whole path
Push(path, component) ==
    (IF IsAbsolute(component) THEN << <<"/">> >> ELSE path) \o Components(component, <<>>)

\* the %target% token is left in place
ExpandArtifactNoTarget(artifact_pattern) ==
    Replace(Replace(artifact_pattern, "%arch%", ARCH), "%os%", get_triple_os)

\* lines 200-203: the tokens known before the scan
ExpandArtifact(artifact_pattern) ==
    Replace(Replace(Replace(artifact_pattern, "%arch%", ARCH), "%os%", get_triple_os),
            "%target%", get_target)

VersionMatches(release, version) ==
    \E s \in release.name : IsMatch(version, s)

\* the first matching asset is kept instead of the last
ScanAssetKeepFirst(acc, release, artifact_re, asset) ==
    IF IsMatch(artifact_re, asset.name)
    THEN IF acc.unpackable = NoneOpt
         THEN [acc EXCEPT !.unpackable = Some(<<asset.name, asset.browser_download_url>>),
                          !.release_name = release.name]
         ELSE acc
    ELSE IF asset.name = <<"prelude">>
         THEN [acc EXCEPT !.verbatim = Append(@, <<asset.name, asset.browser_download_url>>)]
         ELSE acc

\* lines 230-237: one asset of a matching release
ScanAsset(acc, release, artifact_re, asset) ==
    LET name == asset.name
        url  == asset.browser_download_url
    IN  IF IsMatch(artifact_re, name)
        THEN [acc EXCEPT !.unpackable = Some(<<name, url>>),
                         !.release_name = release.name]
        ELSE IF name = <<"prelude">>
             THEN [acc EXCEPT !.verbatim = Append(@, <<name, url>>)]
             ELSE acc

\* lines 229-238: the scan of one release's assets
RECURSIVE ScanAssets(_, _, _, _)
ScanAssets(acc, release, artifact_re, assets) ==
    IF assets = <<>> THEN acc
    ELSE ScanAssets(ScanAsset(acc, release, artifact_re, Head(assets)),
                    release, artifact_re, Tail(assets))

\* lines 208-239: one iteration of the loop over the releases
ScanRelease(acc, release, cfg, artifact_name) ==
    IF VersionMatches(release, cfg.gh.version)
    THEN LET name        == CHOOSE s \in release.name : TRUE
             pushed      == IF release.tag_name = cfg.gh.version
                            THEN Push(acc.dir_path, release.target_commitish)
                            ELSE Push(acc.dir_path, name)
             artifact_re == Replace(artifact_name, "%version%", name)
         IN  ScanAssets([acc EXCEPT !.dir_path = pushed], release, artifact_re, release.assets)
    ELSE acc

RECURSIVE ScanReleases(_, _, _, _)
ScanReleases(acc, releases, cfg, artifact_name) ==
    IF releases = <<>> THEN acc
    ELSE ScanReleases(ScanRelease(acc, Head(releases), cfg, artifact_name),
                      Tail(releases), cfg, artifact_name)

\* the scan gives up when a matching release has no matching asset
ResolveStrict(releases, cfg) ==
    LET artifact_name == ExpandArtifact(cfg.artifact_pattern)
        acc == ScanReleases([dir_path |-> <<>>, release_name |-> NoneOpt,
                             unpackable |-> NoneOpt, verbatim |-> <<>>],
                            releases, cfg, artifact_name)
        lacking == \E i \in 1..Len(releases) :
                      /\ VersionMatches(releases[i], cfg.gh.version)
                      /\ ScanRelease([dir_path |-> <<>>, release_name |-> NoneOpt,
                                      unpackable |-> NoneOpt, verbatim |-> <<>>],
                                     releases[i], cfg, artifact_name).unpackable = NoneOpt
    IN  IF acc.unpackable /= NoneOpt /\ ~lacking
        THEN [ok |-> TRUE, dir_path |-> acc.dir_path,
              name |-> (CHOOSE u \in acc.unpackable : TRUE)[1],
              url |-> (CHOOSE u \in acc.unpackable : TRUE)[2],
              verbatim |-> acc.verbatim]
        ELSE [ok |-> FALSE,
              error |-> [kind |-> "ArtifactNotFound", pattern |-> artifact_name,
                         owner |-> cfg.gh.owner, repo |-> cfg.gh.repo]]

\* lines 194-252: the pure part of download_from_github, up to the choice of (name, url)
Resolve(releases, cfg) ==
    LET artifact_name == ExpandArtifact(cfg.artifact_pattern)
        acc == ScanReleases([dir_path |-> <<>>, release_name |-> NoneOpt,
                             unpackable |-> NoneOpt, verbatim |-> <<>>],
                            releases, cfg, artifact_name)
    IN  IF acc.unpackable /= NoneOpt
        THEN [ok |-> TRUE, dir_path |-> acc.dir_path,
              name |-> (CHOOSE u \in acc.unpackable : TRUE)[1],
              url |-> (CHOOSE u \in acc.unpackable : TRUE)[2],
              verbatim |-> acc.verbatim]
        ELSE [ok |-> FALSE,
              error |-> [kind |-> "ArtifactNotFound", pattern |-> artifact_name,
                         owner |-> cfg.gh.owner, repo |-> cfg.gh.repo]]

\* ---------------------------------------------------------------- file system
NoFile == [src |-> "", form |-> "", len |-> 0, mode |-> "0600", flushed |-> FALSE]

Exists(path) == path \in DOMAIN files \/ path \in dirs

Remove(fs, path) == [q \in DOMAIN fs \ {path} |-> fs[q]]

Prefixes(path) == {SubSeq(path, 1, n) : n \in 1..Len(path)}

\* the bytes a package encoding leaves in the temp file
Decoded(package_type) == IF package_type = "ZstdSingleFile" THEN "decoded" ELSE "raw"

\* ---------------------------------------------------------------- one invocation
IdleRun ==
    [ pc |-> "idle", cfg |-> CfgLatest, releases |-> <<>>, dir_path |-> <<>>,
      url |-> "", verbatim |-> <<>>, tmp |-> <<>>, message |-> <<>>,
      index |-> [skipped |-> FALSE, failed |-> FALSE, had |-> FALSE, age |-> 0],
      reqs |-> {}, clean |-> TRUE, error |-> "", result |-> <<>>,
      start |-> [files |-> <<>>, snapshot |-> [exists |-> FALSE, text |-> "", mtime |-> 0]] ]

Terminal == {"done", "failed", "killed"}

Fail(r, kind) == [r EXCEPT !.pc = "failed", !.error = kind]

\* extract's binary_path: the canonical path of the executable
BinaryPath(r) == Push(r.dir_path, r.cfg.binary_name)

\* the payload is written in place, at the path of the executable
TmpPathInPlace(r) == BinaryPath(r)

\* NamedTempFile::new_in(&dir_path): a fresh name in the destination directory
TmpPath(r) == Push(r.dir_path, <<".tmp", ToString(runs)>>)

Abs(x) == IF x < 0 THEN -x ELSE x

\* the window compared with <= instead of <
IsFreshInclusive(curr_time, last_modification_time) ==
    Abs(curr_time - last_modification_time) <= FreshWindow

\* line 137
IsFresh(curr_time, last_modification_time) ==
    Abs(curr_time - last_modification_time) < FreshWindow

\* the variables of the other specifications, at rest
NoCall == [op |-> "none"]
NoLauncher == [pc |-> "none"]
NoWriters == <<>>

Init ==
    /\ config \in Configs
    /\ now = 2 * FreshWindow
    /\ provider \in Texts
    /\ snapshot = [exists |-> FALSE, text |-> "", mtime |-> 0]
    /\ dirs = {}
    /\ files = <<>>
    /\ run = IdleRun
    /\ prev = [outcome |-> "none", result |-> <<>>]
    /\ runs = 0
    /\ ticked = FALSE
    /\ call = NoCall
    /\ launcher = NoLauncher
    /\ writers = NoWriters

\* ---------------------------------------------------------------- environment
\* between two invocations the wall clock moves on by just under the window or by the
\* window, or is set back by two windows
ClockSteps == {FreshWindow - 1, FreshWindow, -(2 * FreshWindow)}

Tick ==
    /\ run.pc = "idle"
    /\ ~ticked
    /\ runs < MaxRuns
    /\ \E d \in ClockSteps : now' = now + d
    /\ ticked' = TRUE
    /\ UNCHANGED <<call, launcher, writers, config, provider, snapshot, dirs, files, run, prev, runs>>

\* the provider publishes another listing, or starts to answer with an error body
SetProvider ==
    /\ run.pc = "idle"
    /\ runs < MaxRuns
    /\ \E t \in Texts \ {provider} : provider' = t
    /\ UNCHANGED <<call, launcher, writers, config, now, snapshot, dirs, files, run, prev, runs, ticked>>

\* the process is terminated by a signal at any point of the run
Kill ==
    /\ run.pc \notin Terminal \cup {"idle"}
    /\ run' = [IdleRun EXCEPT !.pc = "killed", !.cfg = run.cfg, !.clean = FALSE,
                               !.error = "killed", !.start = run.start]
    /\ UNCHANGED <<call, launcher, writers, config, now, provider, snapshot, dirs, files, prev, runs, ticked>>

\* ---------------------------------------------------------------- download
\* download(binary_name, archive_config, output_dir) is entered
Start ==
    /\ run.pc = "idle"
    /\ runs < MaxRuns
    /\ run' = [IdleRun EXCEPT !.pc = "get_releases", !.cfg = config,
                              !.start = [files |-> files, snapshot |-> snapshot]]
    /\ runs' = runs + 1
    /\ ticked' = FALSE
    /\ UNCHANGED <<call, launcher, writers, config, now, provider, snapshot, dirs, files, prev>>

\* the invocation has returned (or died); the next one starts from a new process
Finish ==
    /\ run.pc \in Terminal
    /\ prev' = [outcome |-> run.pc, result |-> run.result]
    /\ run' = IdleRun
    /\ UNCHANGED <<call, launcher, writers, config, now, provider, snapshot, dirs, files, runs, ticked>>

\* lines 138-139 and 156: parse the text and go on to the scan, or return the parse error
Parsed(r, text) ==
    IF ParseOk(text)
    THEN [r EXCEPT !.pc = "resolve", !.releases = Parse(text)]
    ELSE Fail(r, "parse")

\* get_releases, lines 129-141: the snapshot is fresh and is returned without a request
GetReleasesFresh ==
    /\ run.pc = "get_releases"
    /\ snapshot.exists
    /\ IsFresh(now, snapshot.mtime)
    /\ run' = Parsed([run EXCEPT !.index = [skipped |-> TRUE, failed |-> FALSE, had |-> TRUE,
                                            age |-> now - snapshot.mtime]],
                     snapshot.text)
    /\ UNCHANGED <<call, launcher, writers, config, now, provider, snapshot, dirs, files, prev, runs, ticked>>

\* the snapshot file is created (truncated) before the request is sent
SnapshotTruncated == [exists |-> TRUE, text |-> "", mtime |-> now]

\* line 151: send()? returns the error before the snapshot file is created
SnapshotOnRequestError == snapshot

\* get_releases, lines 143-157: the request is sent; its body is stored, then parsed
GetReleasesFetch ==
    /\ run.pc = "get_releases"
    /\ ~(snapshot.exists /\ IsFresh(now, snapshot.mtime))
    /\ LET r == [run EXCEPT !.index = [skipped |-> FALSE, failed |-> FALSE,
                                       had |-> snapshot.exists,
                                       age |-> IF snapshot.exists THEN now - snapshot.mtime ELSE 0],
                            !.reqs = @ \cup {<<"index", "releases">>}]
       IN  \/ /\ snapshot' = SnapshotOnRequestError
              /\ run' = Fail([r EXCEPT !.clean = FALSE, !.index.failed = TRUE], "request")
           \/ /\ snapshot' = [exists |-> TRUE, text |-> provider, mtime |-> now]
              /\ run' = Parsed(r, provider)
    /\ UNCHANGED <<call, launcher, writers, config, now, provider, dirs, files, prev, runs, ticked>>

\* download_from_github, lines 194-252: scan the releases, choose (name, url) or bail
ResolveStep ==
    /\ run.pc = "resolve"
    /\ LET res == Resolve(run.releases, run.cfg)
       IN  run' = IF res.ok
                  THEN [run EXCEPT !.pc = "mkdir", !.dir_path = res.dir_path,
                                   !.url = res.url, !.verbatim = res.verbatim]
                  ELSE [Fail(run, res.error.kind) EXCEPT
                            !.message = <<res.error.pattern, res.error.owner, res.error.repo>>]
    /\ UNCHANGED <<call, launcher, writers, config, now, provider, snapshot, dirs, files, prev, runs, ticked>>

\* lines 254-256: create_dir_all unless the directory exists
Mkdir ==
    /\ run.pc = "mkdir"
    /\ dirs' = IF Exists(run.dir_path) THEN dirs ELSE dirs \cup Prefixes(run.dir_path)
    /\ run' = [run EXCEPT !.pc = "fetch"]
    /\ UNCHANGED <<call, launcher, writers, config, now, provider, snapshot, files, prev, runs, ticked>>

\* line 258: the request for the chosen asset
Fetch ==
    /\ run.pc = "fetch"
    /\ LET r == [run EXCEPT !.reqs = @ \cup {<<"asset", run.url>>}]
       IN  \/ run' = Fail([r EXCEPT !.clean = FALSE], "download")
           \/ run' = [r EXCEPT !.pc = IF r.verbatim = <<>> THEN "tmp" ELSE "vb_get"]
    /\ UNCHANGED <<call, launcher, writers, config, now, provider, snapshot, dirs, files, prev, runs, ticked>>

VerbatimPath(r) == Push(r.dir_path, Head(r.verbatim)[1])

\* line 274: the request for the next verbatim item
VerbatimGet ==
    /\ run.pc = "vb_get"
    /\ LET r == [run EXCEPT !.reqs = @ \cup {<<"verbatim", Head(run.verbatim)[2]>>}]
       IN  \/ run' = Fail([r EXCEPT !.clean = FALSE], "download")
           \/ run' = [r EXCEPT !.pc = "vb_create"]
    /\ UNCHANGED <<call, launcher, writers, config, now, provider, snapshot, dirs, files, prev, runs, ticked>>

\* lines 275-276: File::create truncates the file at its final path
VerbatimCreate ==
    /\ run.pc = "vb_create"
    /\ files' = (VerbatimPath(run) :> [NoFile EXCEPT !.mode = "0644"]) @@ files
    /\ run' = [run EXCEPT !.pc = "vb_write"]
    /\ UNCHANGED <<call, launcher, writers, config, now, provider, snapshot, dirs, prev, runs, ticked>>

\* lines 277-278: read the body, write it, flush
VerbatimWrite ==
    /\ run.pc = "vb_write"
    /\ \/ /\ run' = Fail([run EXCEPT !.clean = FALSE], "download")
          /\ UNCHANGED files
       \/ /\ files' = [files EXCEPT ![VerbatimPath(run)] =
                          [@ EXCEPT !.src = Head(run.verbatim)[2], !.form = "raw",
                                    !.len = PayloadLen, !.flushed = TRUE]]
          /\ run' = [run EXCEPT !.verbatim = Tail(@),
                                !.pc = IF Tail(run.verbatim) = <<>> THEN "tmp" ELSE "vb_get"]
    /\ UNCHANGED <<call, launcher, writers, config, now, provider, snapshot, dirs, prev, runs, ticked>>

\* line 281: the temp file is created empty in the destination directory
TmpCreate ==
    /\ run.pc = "tmp"
    /\ files' = (TmpPath(run) :> NoFile) @@ files
    /\ run' = [run EXCEPT !.pc = "copy", !.tmp = TmpPath(run)]
    /\ UNCHANGED <<call, launcher, writers, config, now, provider, snapshot, dirs, prev, runs, ticked>>

\* the temp file is left behind on an error return
DropTmpKept(r, kind) ==
    /\ files' = files
    /\ run' = Fail([r EXCEPT !.clean = FALSE], kind)

\* an error return from extract drops the NamedTempFile, which removes the file
DropTmp(r, kind) ==
    /\ files' = Remove(files, r.tmp)
    /\ run' = Fail([r EXCEPT !.clean = FALSE], kind)

\* lines 282-288: one chunk of the stream reaches the temp file, or the stream or the
\* decoder reports an error
Copy ==
    /\ run.pc = "copy"
    /\ \/ DropTmp(run, "decode")
       \/ /\ files' = [files EXCEPT ![run.tmp] =
                          [@ EXCEPT !.src = run.url, !.form = Decoded(run.cfg.package_type),
                                    !.len = @ + 1]]
          /\ run' = [run EXCEPT !.pc = IF files[run.tmp].len + 1 = PayloadLen
                                       THEN "flush" ELSE "copy"]
    /\ UNCHANGED <<call, launcher, writers, config, now, provider, snapshot, dirs, prev, runs, ticked>>

\* line 290
Flush ==
    /\ run.pc = "flush"
    /\ files' = [files EXCEPT ![run.tmp] = [@ EXCEPT !.flushed = TRUE]]
    /\ run' = [run EXCEPT !.pc = "chmod"]
    /\ UNCHANGED <<call, launcher, writers, config, now, provider, snapshot, dirs, prev, runs, ticked>>

\* the permissions are left as the temp file was created
ChmodSkipped ==
    /\ run.pc = "chmod"
    /\ \/ DropTmp(run, "permissions")
       \/ /\ files' = files
          /\ run' = [run EXCEPT !.pc = "rename"]
    /\ UNCHANGED <<call, launcher, writers, config, now, provider, snapshot, dirs, prev, runs, ticked>>

\* lines 291-296
Chmod ==
    /\ run.pc = "chmod"
    /\ \/ DropTmp(run, "permissions")
       \/ /\ files' = [files EXCEPT ![run.tmp] = [@ EXCEPT !.mode = "0755"]]
          /\ run' = [run EXCEPT !.pc = "rename"]
    /\ UNCHANGED <<call, launcher, writers, config, now, provider, snapshot, dirs, prev, runs, ticked>>

\* lines 297-301: the temp file becomes the executable; extract returns dir_path
Rename ==
    /\ run.pc = "rename"
    /\ \/ DropTmp(run, "rename")
       \/ /\ files' = (BinaryPath(run) :> files[run.tmp]) @@ Remove(files, run.tmp)
          /\ run' = [run EXCEPT !.pc = "done", !.result = run.dir_path]
    /\ UNCHANGED <<call, launcher, writers, config, now, provider, snapshot, dirs, prev, runs, ticked>>

Next ==
    \/ Tick
    \/ SetProvider
    \/ Kill
    \/ Start
    \/ Finish
    \/ GetReleasesFresh
    \/ GetReleasesFetch
    \/ ResolveStep
    \/ Mkdir
    \/ Fetch
    \/ VerbatimGet
    \/ VerbatimCreate
    \/ VerbatimWrite
    \/ TmpCreate
    \/ Copy
    \/ Flush
    \/ Chmod
    \/ Rename

Spec == Init /\ [][Next]_vars

\* ---------------------------------------------------------------- properties
DirOf(path) == SubSeq(path, 1, Len(path) - 1)

\* a path whose last component is the name of the configured binary
IsExePath(path) == path /= <<>> /\ path[Len(path)] = config.binary_name

\* the whole payload has been written and flushed
Complete(f) == f.src /= "" /\ f.len = PayloadLen /\ f.flushed

ExeComplete == \A p \in DOMAIN files : IsExePath(p) => Complete(files[p])

\* a step that creates or changes an executable path is the rename of the run's own,
\* completely written temp file of the same directory
OnlyByRename ==
    \A p \in DOMAIN files' :
        (IsExePath(p) /\ (p \notin DOMAIN files \/ files'[p] /= files[p]))
        => /\ run.pc = "rename"
           /\ run.tmp \in DOMAIN files
           /\ ~IsExePath(run.tmp)
           /\ DirOf(run.tmp) = DirOf(p)
           /\ Complete(files[run.tmp])
           /\ files'[p] = files[run.tmp]

\* C1: at every moment of a cache population, failures and kills included, each
\* executable path is absent or holds a completely written and flushed payload, and an
\* executable path is only ever created or changed by the rename of a complete temp
\* file of the same directory.
C1_AtomicExecutable == []ExeComplete /\ [][OnlyByRename]_vars

\* C1 witness: a run was killed or failed while its temp file was partly written, and
\* the executable of an earlier run is still in place
C1_Witness ==
    /\ run.pc \in {"killed", "failed"}
    /\ \E p \in DOMAIN files : IsExePath(p)
    /\ \/ \E q \in DOMAIN files : ~IsExePath(q) /\ files[q].src /= "" /\ files[q].len < PayloadLen
       \/ run.error = "decode"

AllReleases == UNION {{Listings[t][i] : i \in 1..Len(Listings[t])} : t \in DOMAIN Listings}

AssetsOf(release) == {release.assets[j] : j \in 1..Len(release.assets)}

\* the releases that publish the asset behind a url
ReleasesOf(url) ==
    {r \in AllReleases : \E a \in AssetsOf(r) : a.browser_download_url = url}

SideArtifacts(release) == {a \in AssetsOf(release) : a.name = <<"prelude">>}

\* C2: whenever an executable is at its canonical path, every side-artifact of the
\* release it came from is present in the same directory and completely written.
C2_SideArtifactsWithExecutable ==
    \A p \in DOMAIN files :
        IsExePath(p) =>
            \A r \in ReleasesOf(files[p].src) : \A a \in SideArtifacts(r) :
                /\ Push(DirOf(p), a.name) \in DOMAIN files
                /\ Complete(files[Push(DirOf(p), a.name)])

\* the scan of the releases is over (it chose an asset, or it bailed)
AfterScan(r) ==
    \/ r.pc \in {"mkdir", "fetch", "vb_get", "vb_create", "vb_write", "tmp", "copy",
                 "flush", "chmod", "rename", "done"}
    \/ r.pc = "failed" /\ r.error \notin {"request", "parse"}

\* get_releases has returned
AfterIndex(r) == r.pc \notin {"idle", "get_releases", "killed"}

\* C3: a second resolution, with the executable of the resolved release already in the
\* cache, issues no request at all, leaves the cache as it found it and returns the path
\* the first resolution returned.
C3_SecondResolveIsOffline ==
    (/\ run.pc = "done"
     /\ BinaryPath(run) \in DOMAIN run.start.files
     /\ prev.outcome = "done")
    => /\ run.reqs = {}
       /\ files = run.start.files
       /\ snapshot = run.start.snapshot
       /\ run.result = prev.result

\* C4: when the listing request fails, get_releases succeeds with the releases of the
\* snapshot if a snapshot exists, and fails with the request error if none exists.
C4_FallbackToSnapshot ==
    run.index.failed =>
        IF run.index.had
        THEN ParseOk(run.start.snapshot.text)
                => /\ run.error /= "request"
                   /\ run.releases = Parse(run.start.snapshot.text)
        ELSE run.pc = "failed" /\ run.error = "request"

IndexRequested(r) == <<"index", "releases">> \in r.reqs

\* C5 as stated: the snapshot is served without a request exactly when it exists and its
\* age (now - mtime) is below the window.
C5_FreshByAge ==
    AfterIndex(run) =>
        /\ run.index.skipped <=> (run.index.had /\ run.index.age < FreshWindow)
        /\ run.index.skipped <=> ~IndexRequested(run)

\* C5 amended: the snapshot is served without a request exactly when it exists and its
\* modification time is less than one window away from now, in either direction; in
\* every other case the request is issued; a snapshot served is less than a window old.
C5_FreshByDistance ==
    AfterIndex(run) =>
        /\ run.index.skipped <=> (run.index.had /\ Abs(run.index.age) < FreshWindow)
        /\ run.index.skipped <=> ~IndexRequested(run)
        /\ run.index.skipped => run.index.age < FreshWindow

\* C5 witness: a snapshot one second inside the window was served without a request
C5_Witness ==
    /\ AfterIndex(run)
    /\ run.index.skipped
    /\ run.index.age = FreshWindow - 1
    /\ run.reqs = {}

\* a step of get_releases in which the snapshot is served, or the request fails
NoFetchStep ==
    /\ run.pc = "get_releases"
    /\ run'.pc /= "killed"
    /\ run'.index.skipped \/ run'.index.failed

SnapshotFrame ==
    /\ snapshot' /= snapshot
         => /\ run.pc = "get_releases"
            /\ IndexRequested(run')
            /\ ~run'.index.failed /\ ~run'.index.skipped
            /\ snapshot' = [exists |-> TRUE, text |-> provider, mtime |-> now]
    /\ NoFetchStep => snapshot' = snapshot

\* C6: the snapshot file changes only in a step of get_releases whose request brought a
\* response, and then holds that response as received; serving the fresh snapshot and a
\* failed request leave it unchanged.
C6_SnapshotWrittenOnFetchOnly == [][SnapshotFrame]_vars

\* C6 witness: a fetch has replaced an older snapshot by another response
C6_Witness ==
    /\ AfterIndex(run)
    /\ run.start.snapshot.exists
    /\ snapshot.text /= run.start.snapshot.text
    /\ snapshot.text = provider

\* what the provider serves parses, has an asset for this configuration, and a snapshot
\* left in the cache is either that same listing or no listing at all
RetryCanSucceed ==
    /\ ParseOk(provider)
    /\ Resolve(Parse(provider), config).ok
    /\ (run.start.snapshot.exists /\ ParseOk(run.start.snapshot.text))
          => run.start.snapshot.text = provider

\* C7: after a failed run, a run in which nothing fails (working network, valid provider
\* response, no decode, permission or rename error) succeeds.
C7_RetryAfterFailureSucceeds ==
    (/\ prev.outcome \in {"failed", "killed"}
     /\ run.pc \in {"done", "failed"}
     /\ run.clean
     /\ RetryCanSucceed)
    => run.pc = "done"

\* the pattern an asset of this release is matched against
ArtifactRe(release, cfg) ==
    Replace(ExpandArtifact(cfg.artifact_pattern), "%version%",
            CHOOSE s \in release.name : TRUE)

\* the (release, asset) positions of the listing that match the configuration
MatchingPairs(releases, cfg) ==
    {m \in UNION {{<<i, j>> : j \in 1..Len(releases[i].assets)} : i \in 1..Len(releases)} :
        /\ VersionMatches(releases[m[1]], cfg.gh.version)
        /\ IsMatch(ArtifactRe(releases[m[1]], cfg), releases[m[1]].assets[m[2]].name)}

\* the pair met last when the listing is read in order
LastPair(pairs) ==
    CHOOSE m \in pairs : \A n \in pairs : n[1] < m[1] \/ (n[1] = m[1] /\ n[2] <= m[2])

AssetRequests(r) == {q \in r.reqs : q[1] = "asset"}

\* C8: of the (release, asset) pairs that match, the scan selects the one met last in
\* listing order, and the asset request goes to that pair's URL and to no other.
C8_LastMatchWins ==
    (AfterScan(run) /\ run.url /= "") =>
        LET pairs == MatchingPairs(run.releases, run.cfg)
        IN  /\ pairs /= {}
            /\ run.url = run.releases[LastPair(pairs)[1]].assets[LastPair(pairs)[2]].browser_download_url
            /\ AssetRequests(run) \subseteq {<<"asset", run.url>>}

\* C8 witness: two releases match and have matching assets, the last of them has two
\* matching assets, and the asset request has been sent
C8_Witness ==
    /\ AfterScan(run)
    /\ LET pairs == MatchingPairs(run.releases, run.cfg)
       IN  /\ Cardinality({m[1] : m \in pairs}) >= 2
           /\ Cardinality({m \in pairs : m[1] = LastPair(pairs)[1]}) >= 2
    /\ AssetRequests(run) /= {}

\* the stable key of a release: its commit when its tag is the requested version, else
\* its display name
ReleaseIdentity(release, cfg) ==
    IF release.tag_name = cfg.gh.version
    THEN release.target_commitish
    ELSE CHOOSE s \in release.name : TRUE

\* C9: the destination directory is <archive_dir>/<release_identity>, one component that
\* names the selected release only.
C9_OneComponentPerRelease ==
    (AfterScan(run) /\ run.url /= "") =>
        LET pairs == MatchingPairs(run.releases, run.cfg)
        IN  run.dir_path = <<ReleaseIdentity(run.releases[LastPair(pairs)[1]], run.cfg)>>

NotFoundMessage(cfg) == <<ExpandArtifact(cfg.artifact_pattern), cfg.gh.owner, cfg.gh.repo>>

NotFoundOutcome(r) ==
    /\ r.pc = "failed"
    /\ r.error = "ArtifactNotFound"
    /\ r.message = NotFoundMessage(r.cfg)
    /\ AssetRequests(r) = {}

Executable(f) == f.mode = "0755"

ExeExecutable == \A p \in DOMAIN files : IsExePath(p) => Executable(files[p])

\* a step that makes a file executable acts on the run's temp file, after the whole
\* payload was written and flushed, while the file is not yet at the executable path
ChmodBeforeRename ==
    \A p \in DOMAIN files' :
        (Executable(files'[p]) /\ (p \notin DOMAIN files \/ ~Executable(files[p])))
        => \/ /\ run.pc = "chmod"
              /\ p = run.tmp
              /\ p \in DOMAIN files
              /\ ~IsExePath(p)
              /\ Complete(files[p])
           \/ /\ run.pc = "rename"
              /\ p = BinaryPath(run)
              /\ Executable(files[run.tmp])

\* a step of set_permissions or rename either succeeds, or the run was killed, or the
\* run ends with the error of that step and no executable path has changed
FailureIsReturned ==
    run.pc \in {"chmod", "rename"} =>
        \/ run'.pc = (IF run.pc = "chmod" THEN "rename" ELSE "done")
        \/ run'.pc = "killed"
        \/ /\ run'.pc = "failed"
           /\ run'.error = (IF run.pc = "chmod" THEN "permissions" ELSE "rename")
           /\ \A p \in DOMAIN files \cup DOMAIN files' :
                 IsExePath(p) => p \in DOMAIN files /\ p \in DOMAIN files'
                                 /\ files'[p] = files[p]

\* C18: the temp file is made executable (0755) after its payload is written and
\* flushed and before it is renamed, so every file at an executable path is executable;
\* a failure of the permission change or of the rename ends the run with that error.
C18_ExecutableBeforeRename ==
    []ExeExecutable /\ [][ChmodBeforeRename /\ FailureIsReturned]_vars

\* C18 witness: a failed permission change or rename, with an executable of an earlier
\* run in place
C18_Witness ==
    /\ run.pc = "failed"
    /\ run.error \in {"permissions", "rename"}
    /\ \E p \in DOMAIN files : IsExePath(p) /\ Executable(files[p])

\* ---------------------------------------------------------------- the scan as a function
\* download_from_github's template expansion and asset scan, applied to one release
\* for every artifact pattern and display name of a bounded alphabet
MaxPattern == 2

Tokens == {"%arch%", "%os%", "%target%", "%version%"}

PatternChunks == Tokens \cup {"tool-", "prelude", "^"}

Patterns == UNION {[1..n -> PatternChunks] : n \in 0..MaxPattern}

\* display names of a release: plain ones, ones that contain the text of a token, and
\* ones that contain a path separator, are a parent reference or are an absolute path
DisplayNames ==
    { <<"latest">>, <<"2023-07-15">>, <<"%os%">>, <<"v1-", "%version%">>,
      <<"v1", "/", "rc">>, <<"..">>, <<"/", "etc">> }

AssetLists ==
    { <<Asset(<<"tool-", "x86_64">>, "u1"), Asset(<<"prelude">>, "h1")>>,
      <<Asset(<<"prelude">>, "h1"), Asset(<<"tool-", "linux">>, "u2")>>,
      <<Asset(<<"prelude">>, "h1")>>,
      <<Asset(<<"tool-", "latest">>, "u3"), Asset(<<"prelude", ".sha256">>, "h2")>> }

CallRelease(c) == Release(c.name, <<"tag">>, <<"c1">>, c.assets)

\* a configuration whose version pattern is the display name and whose artifact
\* pattern is the input
CallConfig(c) ==
    [CfgLatest EXCEPT !.gh.version = c.name, !.artifact_pattern = c.pattern]

pipeline == <<config, now, provider, snapshot, dirs, files, run, prev, runs, ticked>>

PipelineAtRest ==
    /\ config = CfgLatest
    /\ now = 2 * FreshWindow
    /\ provider = Garbage
    /\ snapshot = [exists |-> FALSE, text |-> "", mtime |-> 0]
    /\ dirs = {}
    /\ files = <<>>
    /\ run = IdleRun
    /\ prev = [outcome |-> "none", result |-> <<>>]
    /\ runs = 0
    /\ ticked = FALSE

InitCall ==
    /\ call \in [op : {"input"}, pattern : Patterns, name : DisplayNames,
                  assets : AssetLists, out : {<<>>}]
    /\ launcher = NoLauncher
    /\ writers = NoWriters
    /\ PipelineAtRest

\* lines 199-203 and 224-228: the regular expression the assets are matched against
CallExpand ==
    /\ call.op = "input"
    /\ call' = [call EXCEPT !.op = "expand",
                            !.out = ArtifactRe(CallRelease(call), CallConfig(call))]
    /\ UNCHANGED <<launcher, writers, pipeline>>

\* lines 199-252: the scan of a listing that holds the one release
CallResolve ==
    /\ call.op = "input"
    /\ call' = [call EXCEPT !.op = "resolve",
                            !.out = Resolve(<<CallRelease(call)>>, CallConfig(call))]
    /\ UNCHANGED <<launcher, writers, pipeline>>

NextCall == CallExpand \/ CallResolve

SpecCall == InitCall /\ [][NextCall]_vars

\* ---------------------------------------------------------------- C20
\* the runtime fact a token stands for
Fact(token, name) ==
    CASE token = "%arch%"    -> ARCH
      [] token = "%os%"      -> get_triple_os
      [] token = "%target%"  -> get_target
      [] token = "%version%" -> name

\* every token occurrence of the template replaced by its fact, all at once
RECURSIVE Substituted(_, _)
Substituted(pattern, name) ==
    IF pattern = <<>> THEN <<>>
    ELSE (IF Head(pattern) \in Tokens THEN Fact(Head(pattern), name) ELSE <<Head(pattern)>>)
         \o Substituted(Tail(pattern), name)

NoToken(s) == \A i \in 1..Len(s) : s[i] \notin Tokens

\* C20 as stated: for every template and every version string, the expansion is the
\* template with each token occurrence replaced by its runtime fact, and no token
\* remains in it.
C20_ExpansionForEveryVersion ==
    call.op = "expand" =>
        /\ call.out = Substituted(call.pattern, call.name)
        /\ NoToken(call.out)

\* C20 amended: the same, for every version string that contains no token text.
C20_ExpansionForTokenFreeVersion ==
    (call.op = "expand" /\ NoToken(call.name)) =>
        /\ call.out = Substituted(call.pattern, call.name)
        /\ NoToken(call.out)

\* C20 witness: a template with the version token and two other tokens was expanded
\* with a token-free version string
C20_Witness ==
    /\ call.op = "expand"
    /\ NoToken(call.name)
    /\ call.pattern = <<"%version%", "%target%">>
    /\ call.out = call.name \o get_target

\* ---------------------------------------------------------------- C11
SideLabel == <<"prelude">>

\* C11: after a successful scan, every asset of the matching release that is named
\* with the side-artifact label is in the verbatim list and is not the asset chosen as
\* the executable, whatever the artifact pattern.
C11_LabelIsAlwaysVerbatim ==
    (call.op = "resolve" /\ call.out.ok) =>
        \A i \in 1..Len(call.assets) :
            call.assets[i].name = SideLabel =>
                /\ \E k \in 1..Len(call.out.verbatim) :
                      call.out.verbatim[k] =
                          <<call.assets[i].name, call.assets[i].browser_download_url>>
                /\ call.out.url /= call.assets[i].browser_download_url

\* ---------------------------------------------------------------- main
\* BuckleConfig values: binaries maps a binary name to the archive that provides it,
\* archives maps an archive name to its ArchiveConfig
ConfBuck2 ==
    [ binaries |-> [b \in {"buck2"} |-> [provided_by |-> "buck2"]],
      archives |-> [a \in {"buck2"} |-> CfgLatest] ]

\* the configuration of the bazel integration test
ConfBazel ==
    [ binaries |-> [b \in {"bazel"} |-> [provided_by |-> "bazel"]],
      archives |-> [a \in {"bazel"} |-> CfgDated] ]

ConfBoth ==
    [ binaries |-> [b \in {"buck2", "bazel"} |-> [provided_by |-> b]],
      archives |-> [a \in {"buck2", "bazel"} |-> IF a = "buck2" THEN CfgLatest ELSE CfgDated] ]

\* a binary whose provided_by names no declared archive
ConfDangling ==
    [ binaries |-> [b \in {"bazel"} |-> [provided_by |-> "nowhere"]],
      archives |-> [a \in {"buck2"} |-> CfgLatest] ]

Confs == {ConfBuck2, ConfBazel, ConfBoth, ConfDangling}

\* lines 463-476: BUCKLE_BINARY, else the name the launcher was invoked as unless that
\* is "buckle"
get_binary_name(env_binary, invoked_as) ==
    IF env_binary /= NoneOpt THEN env_binary
    ELSE IF invoked_as = NoneOpt THEN NoneOpt
    ELSE IF invoked_as = Some("buckle") THEN NoneOpt
    ELSE invoked_as

\* with no name given, the first declared binary is taken whatever their number
LookupFirstBinary(conf, binary_name) ==
    LET names == DOMAIN conf.binaries
        name  == IF binary_name /= NoneOpt THEN CHOOSE n \in binary_name : TRUE
                 ELSE CHOOSE n \in names : TRUE
    IN  IF name \notin names
        THEN [ok |-> FALSE, error |-> <<"No binary named", name>>]
        ELSE IF conf.binaries[name].provided_by \notin DOMAIN conf.archives
        THEN [ok |-> FALSE, error |-> <<"No archive named", conf.binaries[name].provided_by>>]
        ELSE [ok |-> TRUE, binary_name |-> name,
              archive_name |-> conf.binaries[name].provided_by]

\* lines 336-353: the binary and the archive get_binary_path works on
Lookup(conf, binary_name) ==
    LET names == DOMAIN conf.binaries
    IN  IF binary_name = NoneOpt /\ Cardinality(names) /= 1
        THEN [ok |-> FALSE, error |-> <<"No binary name provided">>]
        ELSE LET name == IF binary_name /= NoneOpt THEN CHOOSE n \in binary_name : TRUE
                         ELSE CHOOSE n \in names : TRUE
             IN  IF name \notin names
                 THEN [ok |-> FALSE, error |-> <<"No binary named", name>>]
                 ELSE IF conf.binaries[name].provided_by \notin DOMAIN conf.archives
                 THEN [ok |-> FALSE,
                       error |-> <<"No archive named", conf.binaries[name].provided_by>>]
                 ELSE [ok |-> TRUE, binary_name |-> name,
                       archive_name |-> conf.binaries[name].provided_by]

\* str::trim on the text of the hash file
RECURSIVE TrimStart(_)
TrimStart(s) ==
    IF s /= <<>> /\ Head(s) \in {" ", "\n"} THEN TrimStart(Tail(s)) ELSE s

RECURSIVE TrimEnd(_)
TrimEnd(s) ==
    IF s /= <<>> /\ s[Len(s)] \in {" ", "\n"} THEN TrimEnd(SubSeq(s, 1, Len(s) - 1)) ELSE s

Trim(s) == TrimEnd(TrimStart(s))

\* every exit code is reported as 1
ExitStatusMasked(child) ==
    IF child.code = Some(0) THEN 0 ELSE 1

\* lines 559-563: ExitStatus::success is code 0; a child without a code was ended by
\* a signal
ExitStatus(child) ==
    IF child.code = Some(0) THEN 0
    ELSE IF child.code /= NoneOpt THEN CHOOSE n \in child.code : TRUE
    ELSE 1

\* the exit status of a process whose main returns an error, and of one that panics
ErrorStatus == 1
PanicStatus == 101

\* what main can find at <buckle_dir>/buck2
Entries == {"absent", "dir", "file", "exe"}

\* what get_buck2_project_root and the .buckconfig of the root give
Roots == {"no_cwd", "none", "no_prelude_key", "prelude"}

\* the repository around the prelude path: none, a bare one, one whose work tree does
\* not hold the prelude path, one without a submodule there, a submodule without an id,
\* or a submodule checked out at a commit
Repos ==
    { [kind |-> k, id |-> <<>>] : k \in {"none", "bare", "outside", "no_submodule", "no_id"} }
    \cup { [kind |-> "submodule", id |-> h] : h \in {<<"abc123">>, <<"def456">>} }

\* the cached expected hash: get_buck2_dir fails, the file is missing, or its text
CachedHashes ==
    { [kind |-> "no_dir", text |-> <<>>], [kind |-> "missing", text |-> <<>>],
      [kind |-> "text", text |-> <<"abc123", "\n">>] }

ChildResults == { [code |-> Some(0)], [code |-> Some(2)], [code |-> NoneOpt] }

Launcher(entry, prelude_check, root, repo, cached, conf, env_binary, invoked_as) ==
    [ pc |-> "start", entry |-> entry, prelude_check |-> prelude_check, root |-> root,
      repo |-> repo, cached |-> cached, conf |-> conf, env_binary |-> env_binary,
      invoked_as |-> invoked_as,
      expected |-> <<>>, compared |-> FALSE, stderr |-> <<>>, lookup |-> [ok |-> FALSE, error |-> <<>>],
      mkdirs |-> {}, started |-> FALSE, binary_path |-> <<>>, child |-> NoneOpt,
      end |-> "", origin |-> "", status |-> 0 ]

InitMain ==
    /\ launcher \in { Launcher(e, c, r, g, h, f, b, i) :
                         e \in Entries, c \in BOOLEAN, r \in Roots, g \in Repos,
                         h \in CachedHashes, f \in Confs,
                         b \in {NoneOpt, Some("bazel"), Some("gone")},
                         i \in {Some("buckle"), Some("buck2")} }
    /\ call = NoCall
    /\ writers = NoWriters
    /\ PipelineAtRest

\* main returns Err: the runtime prints the error and exits with status 1
ExitError(l, message) ==
    [l EXCEPT !.pc = "exited", !.end = "error", !.origin = "main", !.status = ErrorStatus,
              !.stderr = Append(@, <<"Error">> \o message)]

\* a panic in the named function unwinds through main
ExitPanic(l, function) ==
    [l EXCEPT !.pc = "exited", !.end = "panic", !.origin = function, !.status = PanicStatus]

\* lines 489-509: <buckle_dir>/buck2 must exist and be an executable regular file
Precheck ==
    /\ launcher.pc = "start"
    /\ launcher' = IF launcher.entry = "exe"
                   THEN [launcher EXCEPT !.pc = "prelude_check"]
                   ELSE ExitError(launcher, <<"The buckle cache is corrupted">>)
    /\ UNCHANGED <<call, writers, pipeline>>

\* lines 511-528 and 69-92: the check is entered when it is not switched off, a project
\* root is found and its .buckconfig names a prelude
PreludeCheck ==
    /\ launcher.pc = "prelude_check"
    /\ launcher' =
          IF ~launcher.prelude_check THEN [launcher EXCEPT !.pc = "args"]
          ELSE IF launcher.root = "no_cwd"
               THEN ExitPanic(launcher, "get_buck2_project_root")
          ELSE IF launcher.root = "prelude" THEN [launcher EXCEPT !.pc = "verify"]
          ELSE [launcher EXCEPT !.pc = "args"]
    /\ UNCHANGED <<call, writers, pipeline>>

\* lines 433-451: verify_prelude up to the submodule id
VerifyPrelude ==
    /\ launcher.pc = "verify"
    /\ launcher' =
          CASE launcher.repo.kind \in {"bare", "outside"} -> ExitPanic(launcher, "verify_prelude")
            [] launcher.repo.kind = "submodule" -> [launcher EXCEPT !.pc = "expected_hash"]
            [] OTHER -> [launcher EXCEPT !.pc = "args"]
    /\ UNCHANGED <<call, writers, pipeline>>

\* lines 304-320: get_buck2_dir().unwrap(), File::open(..).unwrap(), trim
GetExpectedPreludeHash ==
    /\ launcher.pc = "expected_hash"
    /\ launcher' =
          IF launcher.cached.kind = "text"
          THEN [launcher EXCEPT !.pc = "compare", !.expected = Trim(launcher.cached.text)]
          ELSE ExitPanic(launcher, "get_expected_prelude_hash")
    /\ UNCHANGED <<call, writers, pipeline>>

\* lines 480-486: the two lines of the warning
mismatched_prelude_msg(prelude_hash, expected_hash) ==
    << <<"buckle: Git submodule for prelude">> \o prelude_hash
           \o <<"is not the expected">> \o expected_hash,
       <<"buckle: cd", "prelude", "&& git fetch && git checkout">> \o expected_hash >>

\* the launch is given up when the hashes differ
CompareStrict ==
    /\ launcher.pc = "compare"
    /\ launcher' =
          IF launcher.repo.id /= launcher.expected
          THEN ExitError([launcher EXCEPT !.compared = TRUE],
                         <<"prelude mismatch">>)
          ELSE [launcher EXCEPT !.pc = "args", !.compared = TRUE]
    /\ UNCHANGED <<call, writers, pipeline>>

\* lines 452-456
Compare ==
    /\ launcher.pc = "compare"
    /\ launcher' =
          [launcher EXCEPT
              !.pc = "args", !.compared = TRUE,
              !.stderr = IF launcher.repo.id /= launcher.expected
                         THEN @ \o mismatched_prelude_msg(launcher.repo.id, launcher.expected)
                         ELSE @]
    /\ UNCHANGED <<call, writers, pipeline>>

\* lines 531-537 and 390-430: the binary name and the configuration; the text of a
\* configuration may fail to parse
LoadConfig ==
    /\ launcher.pc = "args"
    /\ \/ launcher' = ExitError(launcher, <<"toml">>)
       \/ launcher' = [launcher EXCEPT !.pc = "lookup"]
    /\ UNCHANGED <<call, writers, pipeline>>

\* lines 336-353
LookupStep ==
    /\ launcher.pc = "lookup"
    /\ LET res == Lookup(launcher.conf,
                         get_binary_name(launcher.env_binary, launcher.invoked_as))
       IN  launcher' =
             IF res.ok THEN [launcher EXCEPT !.pc = "archive_dir", !.lookup = res]
             ELSE [ExitError(launcher, res.error) EXCEPT !.lookup = res]
    /\ UNCHANGED <<call, writers, pipeline>>

\* the archive directory exists already: after the check of lines 489-509 the entry
\* buck2 of the cache directory exists, entries of other names may or may not
ArchiveDirExists(l, exists) ==
    IF l.lookup.archive_name = "buck2" THEN exists ELSE TRUE

\* lines 355-360
ArchiveDir ==
    /\ launcher.pc = "archive_dir"
    /\ \E exists \in BOOLEAN :
          /\ ArchiveDirExists(launcher, exists)
          /\ \/ /\ exists
                /\ launcher' = [launcher EXCEPT !.pc = "download"]
             \/ /\ ~exists
                /\ \/ launcher' = ExitError(launcher, <<"error creating">>)
                   \/ launcher' = [launcher EXCEPT !.pc = "download",
                                                   !.mkdirs = @ \cup {launcher.lookup.archive_name}]
    /\ UNCHANGED <<call, writers, pipeline>>

\* line 362: download fails, or returns the path of extract; below an archive
\* directory that is a regular file nothing can be created
Download ==
    /\ launcher.pc = "download"
    /\ \/ launcher' = ExitError([launcher EXCEPT !.started = TRUE], <<"download">>)
       \/ /\ launcher.lookup.archive_name /= "buck2"
          /\ \E commit \in {<<"c1">>, <<"c2">>} :
                launcher' =
                  [launcher EXCEPT
                      !.pc = "launch", !.started = TRUE,
                      !.binary_path = <<<<launcher.lookup.archive_name>>, commit>>,
                      !.stderr = Append(@, <<"buckle is running", launcher.lookup.archive_name>>
                                              \o commit)]
    /\ UNCHANGED <<call, writers, pipeline>>

\* lines 549-557: the child runs to its end, or it cannot be started
Launch ==
    /\ launcher.pc = "launch"
    /\ \/ launcher' = ExitPanic(launcher, "main")
       \/ \E c \in ChildResults :
             launcher' = [launcher EXCEPT !.pc = "child_done", !.child = Some(c)]
    /\ UNCHANGED <<call, writers, pipeline>>

\* lines 559-563
Exit ==
    /\ launcher.pc = "child_done"
    /\ LET c == CHOOSE x \in launcher.child : TRUE
       IN  launcher' = [launcher EXCEPT
                           !.pc = "exited", !.origin = "main",
                           !.end = IF ExitStatus(c) = 0 THEN "ok" ELSE "exit",
                           !.status = ExitStatus(c)]
    /\ UNCHANGED <<call, writers, pipeline>>

NextMain ==
    \/ Precheck
    \/ PreludeCheck
    \/ VerifyPrelude
    \/ GetExpectedPreludeHash
    \/ Compare
    \/ LoadConfig
    \/ LookupStep
    \/ ArchiveDir
    \/ Download
    \/ Launch
    \/ Exit

SpecMain == InitMain /\ [][NextMain]_vars

\* ---------------------------------------------------------------- C12
LookedUp(l) == l.lookup /= [ok |-> FALSE, error |-> <<>>]

\* the lookup cannot name one binary and one declared archive
Unresolvable(conf, binary_name) ==
    \/ binary_name = NoneOpt /\ Cardinality(DOMAIN conf.binaries) /= 1
    \/ \E n \in binary_name : n \notin DOMAIN conf.binaries
    \/ \E n \in DOMAIN conf.binaries :
          /\ binary_name \in {NoneOpt, Some(n)}
          /\ conf.binaries[n].provided_by \notin DOMAIN conf.archives

\* C12: once get_binary_path has looked the binary up, either the name (or, with no
\* name, the sole declared binary) and its declared archive are the ones it works on,
\* or the run has failed with no directory created and no download started; no name
\* with several binaries, an unknown name and an undeclared archive all fail.
C12_OneArchiveOrEarlyFailure ==
    LookedUp(launcher) =>
        LET conf == launcher.conf
            name == get_binary_name(launcher.env_binary, launcher.invoked_as)
        IN  IF Unresolvable(conf, name)
            THEN /\ launcher.pc = "exited"
                 /\ launcher.end = "error"
                 /\ ~launcher.lookup.ok
                 /\ launcher.mkdirs = {}
                 /\ ~launcher.started
                 /\ launcher.child = NoneOpt
            ELSE /\ launcher.lookup.ok
                 /\ name \in {NoneOpt, Some(launcher.lookup.binary_name)}
                 /\ name = NoneOpt => DOMAIN conf.binaries = {launcher.lookup.binary_name}
                 /\ launcher.lookup.archive_name =
                        conf.binaries[launcher.lookup.binary_name].provided_by
                 /\ launcher.lookup.archive_name \in DOMAIN conf.archives
                 /\ launcher.mkdirs \subseteq {launcher.lookup.archive_name}

\* C12 witness: no name was given, two binaries are declared, and the run has failed
C12_Witness ==
    /\ LookedUp(launcher)
    /\ get_binary_name(launcher.env_binary, launcher.invoked_as) = NoneOpt
    /\ Cardinality(DOMAIN launcher.conf.binaries) = 2
    /\ launcher.pc = "exited"
    /\ launcher.lookup.error = <<"No binary name provided">>

\* ---------------------------------------------------------------- C13
Mismatch(l) == l.compared /\ l.repo.id /= l.expected

\* the error stream holds a line with both hashes and a remediation line with the
\* expected hash
Warned(err, l) ==
    \E i \in 1..Len(err) : \E j \in 1..Len(err) :
        /\ i < j
        /\ IsInfix(l.repo.id, err[i]) /\ IsInfix(l.expected, err[i])
        /\ IsInfix(<<"&& git fetch && git checkout">> \o l.expected, err[j])

\* the comparison changes the error stream only, and only when the hashes differ; all
\* the rest of the launcher goes on as after a match
CompareOnlyWarns ==
    launcher.pc = "compare" =>
        /\ [launcher' EXCEPT !.stderr = launcher.stderr] =
              [launcher EXCEPT !.pc = "args", !.compared = TRUE]
        /\ IF launcher.repo.id /= launcher.expected
           THEN /\ Len(launcher'.stderr) = Len(launcher.stderr) + 2
                /\ SubSeq(launcher'.stderr, 1, Len(launcher.stderr)) = launcher.stderr
                /\ Warned(launcher'.stderr, launcher')
           ELSE launcher'.stderr = launcher.stderr

\* after a mismatch the warning stays on the error stream, and the status of a run that
\* launched the binary is the one the binary gives
StatusAfterMismatch ==
    Mismatch(launcher) =>
        /\ Warned(launcher.stderr, launcher)
        /\ (launcher.pc = "exited" /\ launcher.child /= NoneOpt) =>
              \A c \in launcher.child :
                  launcher.status = (IF c.code = NoneOpt THEN 1 ELSE CHOOSE n \in c.code : TRUE)

\* C13: when the expected hash differs from the submodule's, the check writes a warning
\* with both hashes and a remediation command to the error stream and the run goes on
\* as after a match: the same resolution, the same launch, the exit status of the binary.
C13_MismatchOnlyWarns == []StatusAfterMismatch /\ [][CompareOnlyWarns]_vars

\* C13 witness: a run that warned about a mismatch launched the binary and exited with
\* the binary's code
C13_Witness ==
    /\ Mismatch(launcher)
    /\ launcher.pc = "exited"
    /\ launcher.child = Some([code |-> Some(2)])
    /\ launcher.status = 2

\* ---------------------------------------------------------------- C14
\* the situations in which there is nothing to check
NotApplicable(l) ==
    \/ l.repo.kind \in {"none", "no_submodule"}
    \/ l.repo.kind = "submodule" /\ l.cached.kind = "missing"

\* C14: when there is no repository, no submodule at the prelude path, or no readable
\* cached hash, the consistency check ends the process neither by an error nor by a
\* panic.
C14_NotApplicableIsSkipped ==
    NotApplicable(launcher) =>
        launcher.origin \notin {"verify_prelude", "get_expected_prelude_hash"}

\* ---------------------------------------------------------------- C15
\* C15: a process that has ended was ended by main: no other function panics or exits.
C15_OnlyMainEndsTheProcess ==
    launcher.pc = "exited" => launcher.origin = "main"

\* ---------------------------------------------------------------- C16
\* the download was started and the run ended with an error
DownloadFailed(l) == l.started /\ l.end = "error"

\* C16: a run of the built-in configuration that starts with an empty cache and meets
\* no download failure launches the executable of the selected release below the
\* archive directory buck2.
C16_EmptyCacheRunSucceeds ==
    (/\ launcher.pc = "exited"
     /\ launcher.entry = "absent"
     /\ launcher.conf = ConfBuck2
     /\ launcher.env_binary = NoneOpt
     /\ ~DownloadFailed(launcher))
    => /\ launcher.child /= NoneOpt
       /\ launcher.binary_path \in {<<<<"buck2">>, c, <<"buck2">>>> : c \in {<<"c1">>, <<"c2">>}}

\* ---------------------------------------------------------------- C19
\* C19: the binary is launched only after get_binary_path has returned a path, and the
\* launcher exits with success when the binary did, with the binary's code when it has
\* one, and with 1 when it has none.
C19_ExitStatusMirrorsChild ==
    \A c \in launcher.child :
        /\ launcher.lookup.ok /\ launcher.started /\ launcher.binary_path /= <<>>
        /\ launcher.pc = "exited" =>
              /\ c.code = Some(0) => launcher.status = 0 /\ launcher.end = "ok"
              /\ \A n \in c.code : launcher.status = n
              /\ c.code = NoneOpt => launcher.status = 1
              /\ c.code /= Some(0) => launcher.end = "exit"

\* C19 witness: the binary ended without an exit code and the launcher exited with 1
C19_Witness ==
    /\ launcher.pc = "exited"
    /\ launcher.child = Some([code |-> NoneOpt])
    /\ launcher.status = 1

\* ---------------------------------------------------------------- two invocations at once
\* two processes that resolved the same release run lines 254-301 on one cache
\* directory; every step is atomic and the steps interleave freely
Procs == {1, 2}

\* what both processes resolved
Resolved == Resolve(Parse("one"), CfgLatest)

Writer ==
    [ pc |-> "mkdir_check", cfg |-> CfgLatest, dir_path |-> Resolved.dir_path,
      url |-> Resolved.url, verbatim |-> Resolved.verbatim, tmp |-> <<>>,
      missing |-> FALSE, created |-> FALSE, error |-> "" ]

InitWriters ==
    /\ writers = [proc |-> [p \in Procs |-> Writer], last |-> 0]
    /\ call = NoCall
    /\ launcher = NoLauncher
    /\ PipelineAtRest

atrest == <<call, launcher, config, now, provider, snapshot, run, prev, runs, ticked>>

Proc(p) == writers.proc[p]

SetProc(p, w) == [writers EXCEPT !.proc[p] = w]

\* a file as a process leaves it, with the process that wrote it last
WFile(p) == [src |-> "", form |-> "", len |-> 0, mode |-> "0600", flushed |-> FALSE, by |-> p]

\* both processes use one fixed temp name
WTmpPathShared(p) == Push(Proc(p).dir_path, <<".tmp">>)

\* NamedTempFile::new_in creates the file exclusively under a random name, so the
\* names of two processes differ
WTmpPath(p) == Push(Proc(p).dir_path, <<".tmp", ToString(p)>>)

\* line 254: path.exists()
WMkdirCheck(p) ==
    /\ Proc(p).pc = "mkdir_check"
    /\ writers' = SetProc(p, [Proc(p) EXCEPT
                                 !.pc = IF Proc(p).dir_path \in dirs THEN "fetch" ELSE "mkdir",
                                 !.missing = Proc(p).dir_path \notin dirs])
    /\ UNCHANGED <<dirs, files, atrest>>

\* line 255: create_dir_all succeeds when the directory is there already; it fails when
\* a component of the path is a file
WMkdir(p) ==
    /\ Proc(p).pc = "mkdir"
    /\ IF \E q \in Prefixes(Proc(p).dir_path) : q \in DOMAIN files
       THEN /\ writers' = SetProc(p, Fail(Proc(p), "mkdir"))
            /\ UNCHANGED dirs
       ELSE /\ dirs' = dirs \cup Prefixes(Proc(p).dir_path)
            /\ writers' = SetProc(p, [Proc(p) EXCEPT !.pc = "fetch", !.created = TRUE])
    /\ UNCHANGED <<files, atrest>>

\* line 258: the request for the asset
WFetch(p) ==
    /\ Proc(p).pc = "fetch"
    /\ writers' = SetProc(p, [Proc(p) EXCEPT
                                 !.pc = IF Proc(p).verbatim = <<>> THEN "tmp" ELSE "vb_create"])
    /\ UNCHANGED <<dirs, files, atrest>>

\* lines 273-276: File::create truncates the side-artifact at its final path
WVerbatimCreate(p) ==
    /\ Proc(p).pc = "vb_create"
    /\ IF Proc(p).dir_path \in dirs
       THEN /\ files' = (VerbatimPath(Proc(p)) :> [WFile(p) EXCEPT !.mode = "0644"]) @@ files
            /\ writers' = SetProc(p, [Proc(p) EXCEPT !.pc = "vb_write"])
       ELSE /\ writers' = SetProc(p, Fail(Proc(p), "create"))
            /\ UNCHANGED files
    /\ UNCHANGED <<dirs, atrest>>

\* lines 277-278
WVerbatimWrite(p) ==
    /\ Proc(p).pc = "vb_write"
    /\ files' = [files EXCEPT ![VerbatimPath(Proc(p))] =
                    [@ EXCEPT !.src = Head(Proc(p).verbatim)[2], !.form = "raw",
                              !.len = PayloadLen, !.flushed = TRUE, !.by = p]]
    /\ writers' = SetProc(p, [Proc(p) EXCEPT
                                 !.verbatim = Tail(@),
                                 !.pc = IF Tail(Proc(p).verbatim) = <<>> THEN "tmp"
                                        ELSE "vb_create"])
    /\ UNCHANGED <<dirs, atrest>>

\* line 281
WTmpCreate(p) ==
    /\ Proc(p).pc = "tmp"
    /\ files' = (WTmpPath(p) :> WFile(p)) @@ files
    /\ writers' = SetProc(p, [Proc(p) EXCEPT !.pc = "copy", !.tmp = WTmpPath(p)])
    /\ UNCHANGED <<dirs, atrest>>

\* an error return from extract drops the NamedTempFile, which removes the file
WDropTmp(p, kind) ==
    /\ files' = Remove(files, Proc(p).tmp)
    /\ writers' = SetProc(p, Fail(Proc(p), kind))

\* lines 282-288: one chunk of the stream reaches the temp file through the open
\* handle, or the decoder reports an error of the stream
WCopy(p) ==
    /\ Proc(p).pc = "copy"
    /\ \/ WDropTmp(p, "decode")
       \/ /\ Proc(p).tmp \in DOMAIN files
          /\ files' = [files EXCEPT ![Proc(p).tmp] =
                          [@ EXCEPT !.src = Proc(p).url,
                                    !.form = Decoded(Proc(p).cfg.package_type),
                                    !.len = @ + 1, !.by = p]]
          /\ writers' = SetProc(p, [Proc(p) EXCEPT
                                       !.pc = IF files[Proc(p).tmp].len + 1 >= PayloadLen
                                              THEN "flush" ELSE "copy"])
       \/ /\ Proc(p).tmp \notin DOMAIN files
          /\ writers' = SetProc(p, [Proc(p) EXCEPT !.pc = "flush"])
          /\ UNCHANGED files
    /\ UNCHANGED <<dirs, atrest>>

\* line 290
WFlush(p) ==
    /\ Proc(p).pc = "flush"
    /\ files' = IF Proc(p).tmp \in DOMAIN files
                THEN [files EXCEPT ![Proc(p).tmp] = [@ EXCEPT !.flushed = TRUE]]
                ELSE files
    /\ writers' = SetProc(p, [Proc(p) EXCEPT !.pc = "chmod"])
    /\ UNCHANGED <<dirs, atrest>>

\* lines 291-296: set_permissions goes by the path of the temp file
WChmod(p) ==
    /\ Proc(p).pc = "chmod"
    /\ IF Proc(p).tmp \in DOMAIN files
       THEN /\ files' = [files EXCEPT ![Proc(p).tmp] = [@ EXCEPT !.mode = "0755"]]
            /\ writers' = SetProc(p, [Proc(p) EXCEPT !.pc = "rename"])
       ELSE /\ writers' = SetProc(p, Fail(Proc(p), "permissions"))
            /\ UNCHANGED files
    /\ UNCHANGED <<dirs, atrest>>

\* lines 297-301: rename replaces whatever is at the executable path
WRename(p) ==
    /\ Proc(p).pc = "rename"
    /\ IF Proc(p).tmp \in DOMAIN files
       THEN /\ files' = (BinaryPath(Proc(p)) :> files[Proc(p).tmp])
                            @@ Remove(files, Proc(p).tmp)
            /\ writers' = [SetProc(p, [Proc(p) EXCEPT !.pc = "done"]) EXCEPT !.last = p]
       ELSE /\ writers' = SetProc(p, Fail(Proc(p), "rename"))
            /\ UNCHANGED files
    /\ UNCHANGED <<dirs, atrest>>

WStep(p) ==
    \/ WMkdirCheck(p)
    \/ WMkdir(p)
    \/ WFetch(p)
    \/ WVerbatimCreate(p)
    \/ WVerbatimWrite(p)
    \/ WTmpCreate(p)
    \/ WCopy(p)
    \/ WFlush(p)
    \/ WChmod(p)
    \/ WRename(p)

NextWriters == \E p \in Procs : WStep(p)

SpecWriters == InitWriters /\ [][NextWriters]_vars

\* ---------------------------------------------------------------- C17
\* a failure whose cause is the process's own stream
OwnFailure(w) == w.pc = "failed" => w.error = "decode"

\* the executable in place is the temp file of the process that renamed last
LastRenameWins ==
    \A q \in DOMAIN files :
        IsExePath(q) => writers.last \in Procs /\ files[q].by = writers.last

\* a step that creates or changes the executable is the rename, by some process, of the
\* temp file that process created and wrote completely
RenamesOwnTmp ==
    \A q \in DOMAIN files' :
        (IsExePath(q) /\ (q \notin DOMAIN files \/ files'[q] /= files[q]))
        => \E p \in Procs :
              /\ Proc(p).pc = "rename"
              /\ writers'.proc[p].pc = "done"
              /\ writers'.last = p
              /\ Proc(p).tmp \in DOMAIN files
              /\ files[Proc(p).tmp].by = p
              /\ Complete(files[Proc(p).tmp])
              /\ files'[q] = files[Proc(p).tmp]
              /\ \A o \in Procs \ {p} : Proc(o).tmp /= Proc(p).tmp

\* C17: when two invocations populate one release directory at once, under every
\* interleaving of directory creation, side-artifact writes, temp-file writes, chmod
\* and rename: creation of the directory by both is tolerated, each process renames its
\* own completely written temp file, the executable path is absent or complete and
\* executable at every moment, the executable is that of the last rename, and a process
\* fails only by an error of its own stream.
C17_ConcurrentPopulation ==
    /\ [](ExeComplete /\ ExeExecutable /\ LastRenameWins)
    /\ [](\A p \in Procs : OwnFailure(Proc(p)))
    /\ [][RenamesOwnTmp]_vars

\* C17 witness: both processes found the directory missing and created it, both
\* renamed, and the executable is that of the second one to rename
C17_Witness ==
    /\ \A p \in Procs : Proc(p).pc = "done" /\ Proc(p).missing /\ Proc(p).created
    /\ writers.last = 1
    /\ \E q \in DOMAIN files : IsExePath(q) /\ files[q].by = 1

\* ---------------------------------------------------------------- C24
\* extract has returned after it created its temp file
ExtractReturned(r) == r.pc \in {"done", "failed"} /\ r.tmp /= <<>>

\* C24: when extract returns, with success or with an error of the copy, the decoder,
\* the permission change or the rename, the temp file it created is no longer in the
\* destination directory; on success the executable holds the payload of that file.
C24_NoTempFileAfterExtract ==
    ExtractReturned(run) =>
        /\ run.tmp \notin DOMAIN files
        /\ run.pc = "done" =>
              /\ BinaryPath(run) \in DOMAIN files
              /\ files[BinaryPath(run)].src = run.url
              /\ Complete(files[BinaryPath(run)])
        /\ run.pc = "failed" => run.error \in {"decode", "permissions", "rename"}

\* C24 witness: extract returned an error of the permission change or of the rename,
\* after the whole payload was in the temp file
C24_Witness ==
    /\ ExtractReturned(run)
    /\ run.pc = "failed"
    /\ run.error \in {"permissions", "rename"}

\* ---------------------------------------------------------------- C23
\* the urls requested for verbatim items so far
VerbatimRequests(r) == {q[2] : q \in {x \in r.reqs : x[1] = "verbatim"}}

\* the urls of the side-artifacts of the release that publishes the chosen asset
SelectedSideUrls(r) ==
    {a.browser_download_url : a \in UNION {SideArtifacts(rel) : rel \in ReleasesOf(r.url)}}

\* C23: every side-artifact that is fetched, and every side-artifact stored in the
\* directory of the run, is an asset of the release whose executable was chosen.
C23_SideArtifactsOfSelectedRelease ==
    (AfterScan(run) /\ run.url /= "") =>
        /\ VerbatimRequests(run) \subseteq SelectedSideUrls(run)
        /\ \A i \in 1..Len(run.verbatim) : run.verbatim[i][2] \in SelectedSideUrls(run)
        /\ run.pc = "done" =>
              \A q \in DOMAIN files :
                  (DirOf(q) = run.dir_path /\ q[Len(q)] = SideLabel /\ files[q].src /= "")
                  => files[q].src \in SelectedSideUrls(run)

\* ---------------------------------------------------------------- get_buck2_project_root
\* the ancestors of the current directory, nearest first (the directory itself is the
\* first), each with the marker files it holds
MaxDepth == 3
MaxCalls == 2

Markers == SUBSET {".buckroot", ".buckconfig"}

Trees == UNION {[1..n -> Markers] : n \in 1..MaxDepth}

\* lines 74-89: the loop over path.ancestors() from position i on
RECURSIVE ScanAncestors(_, _, _)
ScanAncestors(tree, i, current_root) ==
    IF i > Len(tree) THEN current_root
    ELSE IF ".buckroot" \in tree[i] THEN Some(i)
    ELSE ScanAncestors(tree, i + 1,
                       IF ".buckconfig" \in tree[i] THEN Some(i) ELSE current_root)

\* the nearest ancestor that holds either marker
FindRootNearest(tree) ==
    LET marked == {i \in 1..Len(tree) : tree[i] /= {}}
    IN  IF marked = {} THEN NoneOpt
        ELSE Some(CHOOSE i \in marked : \A j \in marked : i <= j)

\* lines 72-90: the closure of get_or_init
FindRoot(tree) == ScanAncestors(tree, 1, NoneOpt)

EmptyCell == [init |-> FALSE, value |-> NoneOpt]

InitRoot ==
    /\ call \in [op : {"root"}, tree : Trees, first : {<<>>}, cell : {EmptyCell},
                  out : {NoneOpt}, calls : {0}]
    /\ launcher = NoLauncher
    /\ writers = NoWriters
    /\ PipelineAtRest

\* lines 70-91: OnceCell::get_or_init runs the closure on the first call only
GetBuck2ProjectRoot ==
    /\ call.op = "root"
    /\ call.calls < MaxCalls
    /\ LET cell == IF call.cell.init THEN call.cell
                   ELSE [init |-> TRUE, value |-> FindRoot(call.tree)]
       IN  call' = [call EXCEPT !.cell = cell, !.out = cell.value, !.calls = @ + 1,
                                !.first = IF call.cell.init THEN @ ELSE call.tree]
    /\ UNCHANGED <<launcher, writers, pipeline>>

\* between two calls a marker file appears or disappears in one ancestor
TouchMarkers ==
    /\ call.op = "root"
    /\ call.calls < MaxCalls
    /\ \E i \in 1..Len(call.tree) : \E m \in Markers :
          /\ m /= call.tree[i]
          /\ call' = [call EXCEPT !.tree[i] = m]
    /\ UNCHANGED <<launcher, writers, pipeline>>

NextRoot == GetBuck2ProjectRoot \/ TouchMarkers

SpecRoot == InitRoot /\ [][NextRoot]_vars

\* ---------------------------------------------------------------- C22
\* the root the claim describes, for the ancestors as they were
DescribedRoot(tree) ==
    LET roots   == {i \in 1..Len(tree) : ".buckroot" \in tree[i]}
        configs == {i \in 1..Len(tree) : ".buckconfig" \in tree[i]}
    IN  IF roots /= {} THEN Some(CHOOSE i \in roots : \A j \in roots : i <= j)
        ELSE IF configs /= {} THEN Some(CHOOSE i \in configs : \A j \in configs : i >= j)
        ELSE NoneOpt

\* C22: every call of get_buck2_project_root returns the nearest ancestor with a
\* .buckroot if there is one, else the furthest ancestor with a .buckconfig, else none,
\* for the ancestors as they were at the first call; later calls return that value.
C22_ProjectRootOnce ==
    (call.op = "root" /\ call.calls >= 1) =>
        /\ call.out = DescribedRoot(call.first)
        /\ call.cell = [init |-> TRUE, value |-> call.out]

\* C22 witness: the first call found a .buckroot below a .buckconfig, the marker was
\* removed afterwards, and the second call still returned the first answer
C22_Witness ==
    /\ call.op = "root"
    /\ call.calls = 2
    /\ call.first = <<{}, {".buckroot"}, {".buckconfig"}>>
    /\ call.tree = <<{}, {}, {".buckconfig"}>>
    /\ call.out = Some(2)

\* ---------------------------------------------------------------- C21
\* a path relative to <cache_root>/<archive_name> stays below that directory: it is
\* not absolute and no parent reference leads above it
RECURSIVE StaysBelow(_, _)
StaysBelow(path, depth) ==
    IF path = <<>> THEN TRUE
    ELSE IF Head(path) = <<"/">> THEN FALSE
    ELSE IF Head(path) = <<"..">> THEN depth > 0 /\ StaysBelow(Tail(path), depth - 1)
    ELSE StaysBelow(Tail(path), depth + 1)

InsideArchive(path) == StaysBelow(path, 0)

\* C21: the directory the scan resolves, in which the pipeline creates the release
\* directory, the side-artifacts, the temp file and the executable, lies inside
\* <cache_root>/<archive_name>/ for every display name the provider returns.
C21_WritesInsideArchive ==
    (call.op = "resolve" /\ call.out.ok) => InsideArchive(call.out.dir_path)

====
